---- MODULE Spec2Model ----
(***************************************************************************)
(* State-machine model of joi-frontend/src/Pages/Home.jsx: the WebSocket   *)
(* session (connect / reconnect / cleanup), the stream accumulator         *)
(* (ai_chunk buffering, idle timer, stream_end, displayResponse), the      *)
(* response formatter and the conversation store (handleSend,              *)
(* handleLoadConversation, handleNewConversation, localStorage).           *)
(*                                                                         *)
(* Text is a sequence of lexemes.  Time is kept as the remaining delay of  *)
(* each pending timer and as the age of lastChunkTimeRef; one Tick step    *)
(* lets TickMs milliseconds pass.  Message and conversation timestamps     *)
(* (new Date().toISOString()) are not represented.                         *)
(***************************************************************************)
EXTENDS Integers, Sequences, FiniteSets, TLC

\* ------------------------------------------------------------------ bounds
MaxMessages == 3      \* longest message list explored
MaxMessagesStore == 5 \* longest message list explored under SpecStore
MaxConvs    == 2      \* most conversations in the history
MaxBuffer   == 2      \* most lexemes in accumulatedResponse
MaxSockets  == 2      \* most WebSocket objects of a session under Spec
MaxSocketsConn == 6   \* most WebSocket objects of a session under SpecConn
TickMs      == 500    \* milliseconds that pass in one Tick step

\* ------------------------------------------------------- program constants
maxReconnectAttempts == 5
reconnectInterval    == 3000
IdleThreshold        == 1000

Null == -1

\* --------------------------------------------------------------- the texts
\* lexemes of server text: a plain word, the markdown emphasis marker, the
\* word "date", and the two halves "2024-05" and "-03" of an ISO date, which
\* is a date only where the halves are adjacent
Lexemes   == {"x", "**", "date", "2024-05", "-03"}
Fragments == {<<>>, <<"x">>, <<"**">>, <<"date">>, <<"2024-05", "-03">>,
              <<"2024-05">>, <<"-03">>}
Inputs    == {"hi", " "}
ErrorPayloads == {<<"boom">>}

GreetingText == <<"Hi there! How can I help you today?">>
UnableText   == <<"Unable to reconnect to the server. Please refresh the page.">>
DateText     == <<"Today's date is 03/05/2024">>

Min(a, b) == IF a < b THEN a ELSE b
Max(a, b) == IF a > b THEN a ELSE b

Last(s) == s[Len(s)]
Front(s) == SubSeq(s, 1, Len(s) - 1)

\* String.prototype.trim on a one-lexeme input
trim(s) == IF s = " " THEN "" ELSE s

\* String.prototype.trim on a text: the newlines at both ends are removed
RECURSIVE trimText(_)
trimText(text) ==
    IF text = <<>> THEN <<>>
    ELSE IF Head(text) = "\n" THEN trimText(Tail(text))
    ELSE IF Last(text) = "\n" THEN trimText(Front(text))
    ELSE text

\* does the third replace of cleanResponse remove the i-th lexeme: an
\* emphasis marker, a fence (backticks), or a newline next to a newline
Removed(text, i) ==
    \/ text[i] \in {"**", "fence"}
    \/ /\ text[i] = "\n"
       /\ \/ i > 1 /\ text[i - 1] = "\n"
          \/ i < Len(text) /\ text[i + 1] = "\n"

RECURSIVE KeepFrom(_, _)
KeepFrom(text, i) ==
    IF i > Len(text) THEN <<>>
    ELSE (IF Removed(text, i) THEN <<>> ELSE <<text[i]>>) \o KeepFrom(text, i + 1)

\* cleanResponse: of the lexemes modelled, the replace chain removes the
\* emphasis markers, the fences and the runs of two or more newlines in one
\* pass, keeps the others, and trims the result
cleanResponse(text) == trimText(KeepFrom(text, 1))

\* text.match(date regex) finds a date
HasDate(text) ==
    \E i \in 1..(Len(text) - 1) : text[i] = "2024-05" /\ text[i + 1] = "-03"

\* does a fragment set the date-query hint: includes('date') or the date regex
HintsDate(payload) ==
    \/ \E i \in 1..Len(payload) : payload[i] = "date"
    \/ HasDate(payload)

\* the lexemes made of word characters only
IsWord(c) == c \in {"x", "py", "date"}

\* where the run of word lexemes that starts at p ends: the index of the
\* first lexeme from p on that is no word, Len(text) + 1 if there is none
WordRunEnd(text, p) ==
    CHOOSE r \in p..(Len(text) + 1) :
        /\ r = Len(text) + 1 \/ ~IsWord(text[r])
        /\ \A j \in p..(r - 1) : IsWord(text[j])

\* does codeBlockRegex match at p: a fence, word characters up to a newline,
\* and a later fence
MatchesAt(text, p) ==
    /\ text[p] = "fence"
    /\ WordRunEnd(text, p + 1) <= Len(text)
    /\ text[WordRunEnd(text, p + 1)] = "\n"
    /\ \E q \in (WordRunEnd(text, p + 1) + 1)..Len(text) : text[q] = "fence"

\* the match at p: match[1], match[2] and the extent of match[0]; the lazy
\* body ends at the first fence after the newline
MatchAt(text, p) ==
    LET r == WordRunEnd(text, p + 1)
        q == CHOOSE q \in (r + 1)..Len(text) :
                 text[q] = "fence" /\ \A j \in (r + 1)..(q - 1) : text[j] # "fence"
    IN  [start |-> p, end |-> q,
         lang |-> SubSeq(text, p + 1, r - 1), code |-> SubSeq(text, r + 1, q - 1)]

\* the while loop over codeBlockRegex.exec(text): the matches from position
\* `from` on, each search resuming after the match before
RECURSIVE codeBlocks(_, _)
codeBlocks(text, from) ==
    IF \E p \in from..Len(text) : MatchesAt(text, p)
    THEN LET p == CHOOSE p \in from..Len(text) :
                      MatchesAt(text, p) /\ \A j \in from..(p - 1) : ~MatchesAt(text, j)
         IN  <<MatchAt(text, p)>> \o codeBlocks(text, MatchAt(text, p).end + 1)
    ELSE <<>>

\* the html of one code block: the language label (match[1] || 'text'), the
\* Copy and Edit buttons and the trimmed code
Html(lang, code) ==
    <<"<div class=code-block>">> \o (IF lang = <<>> THEN <<"text">> ELSE lang)
        \o <<"Copy", "Edit", "<code>">> \o trimText(code) \o <<"</code></div>">>

\* the forEach over codeBlocks that builds result, from block `index` on
RECURSIVE Assemble(_, _, _, _)
Assemble(text, blocks, index, lastIndex) ==
    IF index > Len(blocks) THEN <<>>
    ELSE LET b == blocks[index]
             beforeText == trimText(cleanResponse(SubSeq(text, lastIndex, b.start - 1)))
             afterText == trimText(cleanResponse(SubSeq(text, b.end + 1, Len(text))))
         IN  (IF beforeText # <<>> THEN beforeText \o <<"<br><br>">> ELSE <<>>)
               \o Html(b.lang, b.code)
               \o (IF index = Len(blocks) /\ afterText # <<>>
                   THEN <<"<br><br>">> \o afterText ELSE <<>>)
               \o Assemble(text, blocks, index + 1, b.end + 1)

\* formatResponse: the date special case, then the fenced code blocks with
\* the cleaned text around them, or the cleaned text if there is no block
formatResponse(text, dateQuery) ==
    IF dateQuery /\ HasDate(text) THEN DateText
    ELSE IF codeBlocks(text, 1) = <<>> THEN cleanResponse(text)
    ELSE Assemble(text, codeBlocks(text, 1), 1, 1)

\* -------------------------------------------------------------- the values
Greeting == [role |-> "assistant", content |-> GreetingText, isStreaming |-> "undefined"]
UserMessage(input) == [role |-> "user", content |-> <<input>>, isStreaming |-> "undefined"]
Placeholder == [role |-> "assistant", content |-> <<>>, isStreaming |-> "true"]
Finalized(content) == [role |-> "assistant", content |-> content, isStreaming |-> "false"]
ErrorMessage(payload) == Finalized(<<"Error: ">> \o payload)
UnableMessage == Finalized(UnableText)

\* JSON.stringify drops the properties a message does not have
StringifyMessage(m) ==
    IF m.isStreaming = "undefined"
    THEN [role |-> m.role, content |-> m.content]
    ELSE [role |-> m.role, content |-> m.content, isStreaming |-> m.isStreaming]

StringifyConversation(c) ==
    [id |-> c.id, snippet |-> c.snippet,
     messages |-> [i \in 1..Len(c.messages) |-> StringifyMessage(c.messages[i])]]

JSONstringify(h) == [i \in 1..Len(h) |-> StringifyConversation(h[i])]

\* ---------------------------------------------------------------- the state
VARIABLES
    messages,               \* useState: the active message list
    history,                \* useState: the conversations in memory
    currentConversationId,  \* useState: id of the active conversation or Null
    localStorage,           \* <<>> while 'conversationHistory' has no item, else
                            \* <<value>> with the value stored under it
    sockets,                \* every WebSocket created: readyState, whether it
                            \* ever opened, whether close() was called on it
    wsRef,                  \* index in sockets of wsRef.current
    reconnectAttempts,      \* closure variable of the connection effect
    reconnectTimers,        \* remaining delay of each pending reconnect timer
    accumulatedResponse,    \* closure variable: the buffered text
    isDateQuery,            \* closure variable: the date-query hint
    lastChunkTimeRef,       \* ms since lastChunkTimeRef.current was set, or Null
    timeoutRef,             \* timeoutRef.current: a timer id or Null
    idleTimers,             \* the pending idle timers: [id, left]
    tornDown,               \* the effect cleanup has run (component unmounted)
    tickedSinceId,          \* Date.now() has surely advanced since the last id
    flush,                  \* observation: the flush the last step made, if any
    received,               \* observation: fragments delivered since the last
                            \* flush or open, concatenated
    quiet,                  \* observation: ms since the last ai_chunk, capped
    notices,                \* observation: 'Unable to reconnect' notices issued
    call,                   \* observation: the user operation or the envelope
                            \* without a stream effect the last step handled
    response,               \* a response of the server as its segments (prose,
                            \* fenced blocks), used to exercise formatResponse
    result                  \* <<>>, or <<html>> once formatResponse was
                            \* applied to the text of response

vars == <<messages, history, currentConversationId, localStorage, sockets,
          wsRef, reconnectAttempts, reconnectTimers, accumulatedResponse,
          isDateQuery, lastChunkTimeRef, timeoutRef, idleTimers, tornDown,
          tickedSinceId, flush, received, quiet, notices, call, response,
          result>>

uiVars   == <<history, currentConversationId, localStorage, tickedSinceId>>
connVars == <<sockets, wsRef, reconnectAttempts, reconnectTimers>>
accVars  == <<accumulatedResponse, isDateQuery, lastChunkTimeRef, received>>
obsVars  == <<quiet, notices>>
timerVars == <<timeoutRef, idleTimers>>
fmtVars  == <<response, result>>

\* the observation of a step that made no flush attempt
NoFlush == [by |-> "none", did |-> FALSE, empty |-> FALSE, handed |-> <<>>,
            expected |-> <<>>, quiet |-> 0, overwrote |-> "none", changed |-> FALSE]

\* the observation of a step that handled no user operation and no such envelope
NoCall == [op |-> "none", threw |-> FALSE, sent |-> <<>>]

\* the observation of the user operation op: whether it threw, and the
\* envelopes it handed to wsRef.current.send
Called(op, threw, sent) == [op |-> op, threw |-> threw, sent |-> sent]

\* the observation of ws.onmessage handling an envelope of that kind
Handled(kind) == [op |-> kind, threw |-> FALSE, sent |-> <<>>]

Socket(state) == [readyState |-> state, opened |-> FALSE, callerClosed |-> FALSE]

\* state after the three mount effects: the archive is read (empty storage),
\* handleNewConversation ran while wsRef.current was still null, and
\* connectWebSocket created the first transport
Mounted ==
    /\ messages = <<Greeting>>
    /\ history = <<>>
    /\ currentConversationId = Null
    /\ localStorage = <<>>
    /\ sockets = <<Socket("CONNECTING")>>
    /\ wsRef = 1
    /\ reconnectAttempts = 0
    /\ reconnectTimers = <<>>
    /\ accumulatedResponse = <<>>
    /\ isDateQuery = FALSE
    /\ lastChunkTimeRef = Null
    /\ timeoutRef = Null
    /\ idleTimers = {}
    /\ tornDown = FALSE
    /\ tickedSinceId = FALSE
    /\ flush = NoFlush
    /\ received = <<>>
    /\ quiet = IdleThreshold
    /\ notices = 0
    /\ call = NoCall

\* the mounted page; no response is being formatted on its own
Init ==
    /\ Mounted
    /\ response = <<>>
    /\ result = <<>>

\* ------------------------------------------------------ React and browser
\* a state update of an unmounted component is dropped
setMessages(new) == IF tornDown THEN messages ELSE new

\* clearTimeout(id): the pending timer with that id, if any, is removed
clearTimeout(timers, id) == {t \in timers : t.id # id}

\* setTimeout returns an id that no pending timer and no kept reference has
NewTimerId ==
    CHOOSE n \in 1..(Cardinality(idleTimers) + 2) :
        /\ n # timeoutRef
        /\ \A t \in idleTimers : t.id # n
        /\ \A m \in 1..(n - 1) : m = timeoutRef \/ \E t \in idleTimers : t.id = m

\* WebSocket.send: throws InvalidStateError while CONNECTING, transmits while
\* OPEN, silently discards while CLOSING or CLOSED
SendThrows == sockets[wsRef].readyState = "CONNECTING"

\* the isStreaming value of the message an update replaced, "none" if it replaced none
Overwritten(prev, new) ==
    IF \E i \in 1..Min(Len(prev), Len(new)) : prev[i] # new[i]
    THEN prev[CHOOSE i \in 1..Min(Len(prev), Len(new)) : prev[i] # new[i]].isStreaming
    ELSE "none"

\* ------------------------------------------------------- connection effect
\* a faulty ShouldReconnect: one attempt too many
ShouldReconnectOffByOne(attempts) == attempts <= maxReconnectAttempts

\* the condition of ws.onclose under which a reconnection is scheduled
ShouldReconnect(attempts) == attempts < maxReconnectAttempts

\* connectWebSocket: a new transport, kept in wsRef.current
connectWebSocket ==
    /\ sockets' = Append(sockets, Socket("CONNECTING"))
    /\ wsRef' = Len(sockets) + 1

\* the updater displayResponse passes to setMessages
DisplayUpdater(prevMessages, formatted) ==
    IF Len(prevMessages) > 0 /\ Last(prevMessages).role = "assistant"
    THEN Append(Front(prevMessages),
                [Last(prevMessages) EXCEPT !.content = formatted,
                                           !.isStreaming = "false"])
    ELSE Append(prevMessages, Finalized(formatted))

\* a faulty BufferAfterFlush: the buffer is not cleared
BufferKept == accumulatedResponse

\* what displayResponse leaves in accumulatedResponse after a flush
BufferAfterFlush == <<>>

\* a faulty ShouldDisplay: no guard
AlwaysDisplay(buffer) == TRUE

\* the guard of displayResponse: if (!accumulatedResponse) return
ShouldDisplay(buffer) == buffer # <<>>

\* the observation of a step of handler `by` that ends with the list msgsAfter
Observed(by, did, msgsAfter) ==
    [by |-> by, did |-> did, empty |-> (accumulatedResponse = <<>>),
     handed |-> IF did THEN accumulatedResponse ELSE <<>>,
     expected |-> received, quiet |-> quiet,
     overwrote |-> Overwritten(messages, msgsAfter),
     changed |-> (msgsAfter # messages)]

\* displayResponse, called by the handler `by`
displayResponse(by) ==
    IF ~ShouldDisplay(accumulatedResponse)
    THEN /\ flush' = Observed(by, FALSE, messages)
         /\ UNCHANGED <<messages, accVars>>
    ELSE /\ messages' = setMessages(DisplayUpdater(messages,
                            formatResponse(accumulatedResponse, isDateQuery)))
         /\ accumulatedResponse' = BufferAfterFlush
         /\ isDateQuery' = FALSE
         /\ lastChunkTimeRef' = Null
         /\ received' = <<>>
         /\ flush' = Observed(by, TRUE, messages')

\* a faulty BufferAfterOpen: ws.onopen keeps the buffered text
BufferKeptOnOpen == accumulatedResponse

\* what ws.onopen leaves in accumulatedResponse
BufferAfterOpen == <<>>

\* ws.onopen of transport i
OnOpen(i) ==
    /\ sockets[i].readyState = "CONNECTING"
    /\ sockets' = [sockets EXCEPT ![i].readyState = "OPEN", ![i].opened = TRUE]
    /\ reconnectAttempts' = 0
    /\ accumulatedResponse' = BufferAfterOpen
    /\ isDateQuery' = FALSE
    /\ lastChunkTimeRef' = Null
    /\ received' = <<>>
    /\ flush' = NoFlush
    /\ UNCHANGED fmtVars
    /\ call' = NoCall
    /\ UNCHANGED <<messages, uiVars, wsRef, reconnectTimers, timerVars, tornDown,
                   obsVars>>

\* a faulty TimersAfterCancel: the referenced timer is not cancelled
TimersNotCancelled == idleTimers

\* the timers pending after a handler cancelled the referenced one
TimersAfterCancel ==
    IF timeoutRef # Null THEN clearTimeout(idleTimers, timeoutRef) ELSE idleTimers

\* a faulty Accumulate: the fragment is put in front
AccumulateReversed(buffer, payload) == payload \o buffer

\* accumulatedResponse += data.payload
Accumulate(buffer, payload) == buffer \o payload

\* ws.onmessage of transport i, data.type === 'ai_chunk'
OnAiChunk(i, payload) ==
    /\ sockets[i].readyState = "OPEN"
    /\ Len(accumulatedResponse) + Len(payload) <= MaxBuffer
    /\ accumulatedResponse' = Accumulate(accumulatedResponse, payload)
    /\ isDateQuery' = (isDateQuery \/ HintsDate(payload))
    /\ lastChunkTimeRef' = 0
    /\ timeoutRef' = NewTimerId
    /\ idleTimers' = TimersAfterCancel \cup {[id |-> NewTimerId, left |-> IdleThreshold]}
    /\ received' = received \o payload
    /\ quiet' = 0
    /\ flush' = NoFlush
    /\ UNCHANGED fmtVars
    /\ call' = NoCall
    /\ UNCHANGED <<messages, uiVars, connVars, tornDown, notices>>

\* payloads of an ai_chunk envelope that are no string: the field is absent
\* (undefined) or null
MalformedPayloads == {"undefined", "null"}

\* ws.onmessage of transport i, data.type === 'ai_chunk', with a payload that
\* is no string: `accumulatedResponse += data.payload` appends the payload
\* converted to a string, then data.payload.toLowerCase() throws and the
\* catch block logs; the statements after it do not run
OnMalformedAiChunk(i, payload) ==
    /\ sockets[i].readyState = "OPEN"
    /\ Len(accumulatedResponse) + 1 <= MaxBuffer
    /\ accumulatedResponse' = Accumulate(accumulatedResponse, <<payload>>)
    /\ flush' = NoFlush
    /\ UNCHANGED fmtVars
    /\ call' = Called("ai_chunk", TRUE, <<>>)
    /\ UNCHANGED <<messages, uiVars, connVars, isDateQuery, lastChunkTimeRef,
                   received, timerVars, tornDown, obsVars>>

\* the test the idle timer callback makes before it flushes
IdleElapsed == lastChunkTimeRef # Null /\ lastChunkTimeRef >= IdleThreshold

\* the callback of the idle timer t
IdleTimerFire(t) ==
    /\ t \in idleTimers
    /\ t.left = 0
    /\ idleTimers' = idleTimers \ {t}
    /\ IF IdleElapsed
       THEN displayResponse("idle_timer")
       ELSE /\ flush' = Observed("idle_timer", FALSE, messages)
            /\ UNCHANGED <<messages, accVars>>
    /\ call' = NoCall
    /\ UNCHANGED <<uiVars, connVars, timeoutRef, tornDown, obsVars, fmtVars>>

\* ws.onmessage, data.type === 'error'
OnErrorEnvelope(i, payload) ==
    /\ sockets[i].readyState = "OPEN"
    /\ Len(messages) < MaxMessages
    /\ messages' = setMessages(Append(messages, ErrorMessage(payload)))
    /\ flush' = NoFlush
    /\ UNCHANGED fmtVars
    /\ call' = Handled("error")
    /\ UNCHANGED <<uiVars, connVars, accVars, timerVars, tornDown, obsVars>>

\* ws.onmessage, data.type === 'stream_end'
OnStreamEnd(i) ==
    /\ sockets[i].readyState = "OPEN"
    /\ idleTimers' = TimersAfterCancel
    /\ displayResponse("stream_end")
    /\ call' = NoCall
    /\ UNCHANGED <<uiVars, connVars, timeoutRef, tornDown, obsVars, fmtVars>>

\* ws.onmessage for model_connected, for a type no branch handles (status,
\* warning, tool_status, tool_result, ...) and for data JSON.parse rejects
OtherKinds == {"model_connected", "status", "warning", "tool_status",
               "tool_result", "unknown", "unparseable"}

\* a faulty OnOtherEnvelope: the payload of a tool_result is buffered like a
\* fragment
OnOtherEnvelopeAccumulates(i, kind) ==
    /\ sockets[i].readyState = "OPEN"
    /\ kind \in OtherKinds
    /\ accumulatedResponse' =
          IF kind = "tool_result" /\ Len(accumulatedResponse) < MaxBuffer
          THEN Accumulate(accumulatedResponse, <<"x">>)
          ELSE accumulatedResponse
    /\ flush' = NoFlush
    /\ UNCHANGED fmtVars
    /\ call' = Handled(kind)
    /\ UNCHANGED <<messages, uiVars, connVars, isDateQuery, lastChunkTimeRef,
                   received, timerVars, tornDown, obsVars>>

\* a faulty OnOtherEnvelope: data that cannot be parsed ends the connection
OnOtherEnvelopeFatal(i, kind) ==
    /\ sockets[i].readyState = "OPEN"
    /\ kind \in OtherKinds
    /\ sockets' = [sockets EXCEPT ![i].readyState =
                       IF kind = "unparseable" THEN "CLOSING" ELSE "OPEN"]
    /\ flush' = NoFlush
    /\ UNCHANGED fmtVars
    /\ call' = Handled(kind)
    /\ UNCHANGED <<messages, uiVars, wsRef, reconnectAttempts, reconnectTimers,
                   accVars, timerVars, tornDown, obsVars>>

OnOtherEnvelope(i, kind) ==
    /\ sockets[i].readyState = "OPEN"
    /\ kind \in OtherKinds
    /\ flush' = NoFlush
    /\ UNCHANGED fmtVars
    /\ call' = Handled(kind)
    /\ UNCHANGED <<messages, uiVars, connVars, accVars, timerVars, tornDown, obsVars>>

\* ws.onerror: setMessages with a copy of the same list
OnError(i) ==
    /\ sockets[i].readyState \in {"CONNECTING", "OPEN"}
    /\ messages' = setMessages(messages)
    /\ flush' = NoFlush
    /\ UNCHANGED fmtVars
    /\ call' = NoCall
    /\ UNCHANGED <<uiVars, connVars, accVars, timerVars, tornDown, obsVars>>

\* ws.onclose of transport i: the connection failed, dropped, or finished closing
OnClose(i) ==
    /\ sockets[i].readyState \in {"CONNECTING", "OPEN", "CLOSING"}
    /\ sockets' = [sockets EXCEPT ![i].readyState = "CLOSED"]
    /\ IF ShouldReconnect(reconnectAttempts)
       THEN /\ reconnectTimers' = Append(reconnectTimers, reconnectInterval)
            /\ UNCHANGED <<messages, notices>>
       ELSE /\ Len(messages) < MaxMessages
            /\ messages' = setMessages(Append(messages, UnableMessage))
            /\ notices' = notices + 1
            /\ UNCHANGED reconnectTimers
    /\ flush' = NoFlush
    /\ UNCHANGED fmtVars
    /\ call' = NoCall
    /\ UNCHANGED <<uiVars, wsRef, reconnectAttempts, accVars, timerVars, tornDown,
                   quiet>>

\* a faulty RemoveAt: the timer repeats (setInterval), it stays pending
RemoveAtKeeps(s, k) == s

\* a timer set by setTimeout is no longer pending once its callback runs
RemoveAt(s, k) == SubSeq(s, 1, k - 1) \o SubSeq(s, k + 1, Len(s))

\* the callback of the k-th pending reconnect timer
ReconnectTimerFire(k) ==
    /\ k \in 1..Len(reconnectTimers)
    /\ reconnectTimers[k] = 0
    /\ reconnectTimers' = RemoveAt(reconnectTimers, k)
    /\ reconnectAttempts' = reconnectAttempts + 1
    /\ connectWebSocket
    /\ flush' = NoFlush
    /\ UNCHANGED fmtVars
    /\ call' = NoCall
    /\ UNCHANGED <<messages, uiVars, accVars, timerVars, tornDown, obsVars>>

\* wsRef.current.close() of the cleanup
CloseCalled(ws) ==
    IF ws.readyState \in {"CONNECTING", "OPEN"}
    THEN [ws EXCEPT !.readyState = "CLOSING", !.callerClosed = TRUE]
    ELSE ws

\* the cleanup of the connection effect
Cleanup ==
    /\ ~tornDown
    /\ tornDown' = TRUE
    /\ sockets' = [sockets EXCEPT ![wsRef] = CloseCalled(sockets[wsRef])]
    /\ idleTimers' = TimersAfterCancel
    /\ flush' = NoFlush
    /\ UNCHANGED fmtVars
    /\ call' = NoCall
    /\ UNCHANGED <<messages, uiVars, wsRef, reconnectAttempts, reconnectTimers,
                   accVars, timeoutRef, obsVars>>

\* TickMs milliseconds pass
Tick ==
    /\ \/ \E t \in idleTimers : t.left > 0
       \/ \E k \in 1..Len(reconnectTimers) : reconnectTimers[k] > 0
       \/ lastChunkTimeRef # Null /\ lastChunkTimeRef < IdleThreshold
       \/ quiet < IdleThreshold
       \/ ~tickedSinceId
    /\ idleTimers' = {[t EXCEPT !.left = Max(0, t.left - TickMs)] : t \in idleTimers}
    /\ reconnectTimers' = [k \in 1..Len(reconnectTimers) |->
                               Max(0, reconnectTimers[k] - TickMs)]
    /\ lastChunkTimeRef' = IF lastChunkTimeRef = Null THEN Null
                           ELSE Min(IdleThreshold, lastChunkTimeRef + TickMs)
    /\ quiet' = Min(IdleThreshold, quiet + TickMs)
    /\ tickedSinceId' = TRUE
    /\ flush' = NoFlush
    /\ UNCHANGED fmtVars
    /\ call' = NoCall
    /\ UNCHANGED <<messages, history, currentConversationId, localStorage,
                   sockets, wsRef, reconnectAttempts, accumulatedResponse,
                   isDateQuery, received, timeoutRef, tornDown, notices>>

\* ------------------------------------------------------ conversation store
\* Date.now().toString() of a first send: ids are numbered in the order of
\* the clock readings; the reading may equal the previous one unless a Tick
\* has passed since
NewIds ==
    IF history = <<>> THEN {1}
    ELSE IF tickedSinceId THEN {Last(history).id + 1}
    ELSE {Last(history).id, Last(history).id + 1}

\* input.slice(0, 30) + (input.length > 30 ? '...' : ''): every input of the
\* model is shorter than 30 characters
Snippet(input) == input

\* history.map(conv => conv.id === currentConversationId ? {...conv, messages} : conv)
ReplaceMessages(h, id, newMessages) ==
    [i \in 1..Len(h) |-> IF h[i].id = id
                         THEN [h[i] EXCEPT !.messages = newMessages]
                         ELSE h[i]]

\* a faulty FindConversation: falls back to the first conversation
FindConversationOrFirst(h, id) ==
    IF \E i \in 1..Len(h) : h[i].id = id
    THEN CHOOSE i \in 1..Len(h) : h[i].id = id /\ \A j \in 1..(i - 1) : h[j].id # id
    ELSE Min(1, Len(h))

\* history.find(conv => conv.id === conversationId): index of the first match, 0 if none
FindConversation(h, id) ==
    IF \E i \in 1..Len(h) : h[i].id = id
    THEN CHOOSE i \in 1..Len(h) : h[i].id = id /\ \A j \in 1..(i - 1) : h[j].id # id
    ELSE 0

\* the list handleSend builds from the rendered messages
NewMessages(input) == messages \o <<UserMessage(input), Placeholder>>

\* localStorage.setItem('conversationHistory', JSON.stringify(updatedHistory))
Persisted(updatedHistory) == <<JSONstringify(updatedHistory)>>

\* the envelopes the three user operations hand to wsRef.current.send
UserMessageEnvelope(input) == [type |-> "user_message", payload |-> input, model |-> "openai"]
LoadChatEnvelope(conversationId) ==
    [type |-> "load_chat", payload |-> [conversationId |-> conversationId]]
StartChatEnvelope == [type |-> "start_chat", payload |-> <<>>]

handleSend(input) ==
    /\ ~tornDown
    /\ IF trim(input) = ""
       THEN /\ call' = Called("send", FALSE, <<>>)
            /\ UNCHANGED <<messages, uiVars>>
       ELSE /\ messages' = setMessages(NewMessages(input))
            /\ call' = Called("send", SendThrows, <<UserMessageEnvelope(input)>>)
            /\ IF SendThrows
               THEN UNCHANGED uiVars
               ELSE /\ IF currentConversationId # Null
                       THEN /\ history' = ReplaceMessages(history, currentConversationId,
                                                          NewMessages(input))
                            /\ UNCHANGED <<currentConversationId, tickedSinceId>>
                       ELSE /\ Len(history) < MaxConvs
                            /\ \E id \in NewIds :
                                 /\ history' = Append(history,
                                        [id |-> id, messages |-> NewMessages(input),
                                         snippet |-> Snippet(input)])
                                 /\ currentConversationId' = id
                            /\ tickedSinceId' = FALSE
                    /\ localStorage' = Persisted(history')
    /\ flush' = NoFlush
    /\ UNCHANGED fmtVars
    /\ UNCHANGED <<connVars, accVars, timerVars, tornDown, obsVars>>

handleLoadConversation(conversationId) ==
    /\ ~tornDown
    /\ IF FindConversation(history, conversationId) # 0
       THEN /\ messages' = setMessages(history[FindConversation(history, conversationId)].messages)
            /\ currentConversationId' = conversationId
            /\ call' = Called("load", SendThrows,
                              <<LoadChatEnvelope(conversationId)>>)
       ELSE /\ call' = Called("load", FALSE, <<>>)
            /\ UNCHANGED <<messages, currentConversationId>>
    /\ flush' = NoFlush
    /\ UNCHANGED fmtVars
    /\ UNCHANGED <<history, localStorage, tickedSinceId, connVars, accVars,
                   timerVars, tornDown, obsVars>>

\* a faulty handleNewConversation: the active pointer is not cleared
handleNewConversationKeepsPointer ==
    /\ ~tornDown
    /\ messages' = setMessages(<<Greeting>>)
    /\ call' = Called("new", SendThrows, <<StartChatEnvelope>>)
    /\ flush' = NoFlush
    /\ UNCHANGED fmtVars
    /\ UNCHANGED <<currentConversationId, history, localStorage, tickedSinceId,
                   connVars, accVars, timerVars, tornDown, obsVars>>

handleNewConversation ==
    /\ ~tornDown
    /\ messages' = setMessages(<<Greeting>>)
    /\ currentConversationId' = Null
    /\ call' = Called("new", SendThrows, <<StartChatEnvelope>>)
    /\ flush' = NoFlush
    /\ UNCHANGED fmtVars
    /\ UNCHANGED <<history, localStorage, tickedSinceId, connVars, accVars,
                   timerVars, tornDown, obsVars>>

\* ------------------------------------------------------ the specifications
LoadIds == 1..(MaxConvs + 1)

\* the events of the transports and the passing of time
Transport(maxSockets) ==
    \/ \E i \in DOMAIN sockets : OnOpen(i)
    \/ \E i \in DOMAIN sockets : OnError(i)
    \/ \E i \in DOMAIN sockets : OnClose(i)
    \/ \E k \in DOMAIN reconnectTimers :
          Len(sockets) < maxSockets /\ ReconnectTimerFire(k)
    \/ Tick

\* the response stream of the server and the idle timer
Chunks(fragments) ==
    \/ \E i \in DOMAIN sockets : \E payload \in fragments : OnAiChunk(i, payload)
    \/ \E t \in idleTimers : IdleTimerFire(t)
    \/ \E i \in DOMAIN sockets : OnStreamEnd(i)

\* the error envelopes of the server
ErrorEnvelopes ==
    \E i \in DOMAIN sockets : \E payload \in ErrorPayloads : OnErrorEnvelope(i, payload)

\* every envelope of the server outside the response stream
Envelopes ==
    \/ ErrorEnvelopes
    \/ \E i \in DOMAIN sockets : \E kind \in OtherKinds : OnOtherEnvelope(i, kind)

\* the actions of the user; a send that lengthens the list is explored up to
\* maxMessages messages
User(maxMessages) ==
    \/ \E input \in Inputs :
          /\ trim(input) = "" \/ Len(messages) + 2 <= maxMessages
          /\ handleSend(input)
    \/ \E id \in LoadIds : handleLoadConversation(id)
    \/ handleNewConversation

\* the mounted page: the user, the error envelope, one kind of fragment, few
\* transports
Next == Transport(MaxSockets) \/ Chunks({<<"x">>}) \/ ErrorEnvelopes \/ User(MaxMessages)

Spec == Init /\ [][Next]_vars

\* the stream accumulator until and after the cleanup: every fragment, few
\* transports, no user action and no other envelope
NextStream == Transport(MaxSockets) \/ Chunks(Fragments) \/ Cleanup

SpecStream == Init /\ [][NextStream]_vars

\* the session until and after the cleanup: enough transports to exhaust the
\* reconnection attempts, one kind of fragment, no user action and no other
\* envelope
NextConn == Transport(MaxSocketsConn) \/ Chunks({<<"x">>}) \/ Cleanup

SpecConn == Init /\ [][NextConn]_vars

\* the inbound dispatch: every envelope, one kind of fragment, few transports,
\* no user action
NextEnvelope == Transport(MaxSockets) \/ Chunks({<<"x">>}) \/ Envelopes

SpecEnvelope == Init /\ [][NextEnvelope]_vars

\* the ai_chunk envelopes whose payload is no string
MalformedChunks ==
    \E i \in DOMAIN sockets : \E payload \in MalformedPayloads :
        OnMalformedAiChunk(i, payload)

\* the response stream with malformed fragments: one kind of fragment, the
\* ai_chunk envelopes whose payload is no string, few transports, no user
\* action and no other envelope
NextMalformed == Transport(MaxSockets) \/ Chunks({<<"x">>}) \/ MalformedChunks

SpecMalformed == Init /\ [][NextMalformed]_vars

\* the conversation store: the user with lists long enough for a second send
\* in the same conversation, few transports, no envelope
NextStore == Transport(MaxSockets) \/ User(MaxMessagesStore)

SpecStore == Init /\ [][NextStore]_vars

TypeOK ==
    /\ Len(messages) <= MaxMessagesStore
    /\ Len(history) <= MaxConvs
    /\ wsRef = Len(sockets)
    /\ reconnectAttempts \in 0..maxReconnectAttempts

\* ---------------------------------------------------------------- the claims
\* index of the last transport that ever opened, 0 if none did
LastOpened ==
    IF \E i \in DOMAIN sockets : sockets[i].opened
    THEN CHOOSE i \in DOMAIN sockets :
            sockets[i].opened /\ \A j \in DOMAIN sockets : j > i => ~sockets[j].opened
    ELSE 0

\* transports created by a reconnection since the last successful open (since
\* the mount if none opened)
FailedReconnects == Len(sockets) - Max(1, LastOpened)

AllClosed == \A i \in DOMAIN sockets : sockets[i].readyState = "CLOSED"

\* C1: reconnection is bounded. At most maxReconnectAttempts reconnections
\* follow one another without a successful open; the notice is issued exactly
\* when the last of them has closed, at most once, and then every transport is
\* closed and no reconnection timer is pending, so no transport is ever
\* created again.
C1_ReconnectBounded ==
    /\ notices <= 1
    /\ FailedReconnects <= maxReconnectAttempts
    /\ (notices = 1) <=> (AllClosed /\ FailedReconnects = maxReconnectAttempts)
    /\ notices = 1 => reconnectTimers = <<>>

\* the notice after five reconnections none of which (nor the first transport) opened
C1_Witness ==
    /\ notices = 1
    /\ LastOpened = 0
    /\ Len(sockets) = maxReconnectAttempts + 1
    /\ ~tornDown
    /\ Last(messages) = UnableMessage

\* C2: a transport the cleanup called close() on is the last transport of the
\* session, and no reconnection timer is pending after it.
C2_NoReconnectAfterCallerClose ==
    \A i \in DOMAIN sockets :
        sockets[i].callerClosed => (Len(sockets) = i /\ reconnectTimers = <<>>)

\* C3: every flush hands over exactly the fragments delivered since the flush
\* before it (so no text is flushed twice), and a stream_end that finds text
\* buffered flushes it at once, leaving the buffer empty and no idle timer.
C3_StreamEndFlushOnce ==
    /\ flush.did => (flush.handed = flush.expected /\ flush.handed # <<>>)
    /\ (flush.by = "stream_end" /\ ~flush.empty) =>
          /\ flush.did
          /\ accumulatedResponse = <<>>
          /\ lastChunkTimeRef = Null
          /\ idleTimers = {}

\* stream_end flushes two fragments before the idle threshold has passed
C3_Witness ==
    /\ flush.by = "stream_end"
    /\ flush.did
    /\ flush.quiet < IdleThreshold
    /\ Len(flush.handed) = 2

\* C4: the idle timer flushes only when the idle threshold has passed since the
\* last fragment, the text it hands over is the concatenation, in arrival
\* order, of the fragments delivered since the flush before, and while text is
\* buffered in a live session the timer that will flush it is pending.
C4_IdleFlushConcat ==
    /\ (flush.by = "idle_timer" /\ flush.did) =>
          /\ flush.handed = flush.expected
          /\ flush.quiet >= IdleThreshold
          /\ accumulatedResponse = <<>>
    /\ (accumulatedResponse # <<>> /\ ~tornDown) =>
          \E t \in idleTimers : t.id = timeoutRef

\* the idle timer flushes two different fragments
C4_Witness ==
    /\ flush.by = "idle_timer"
    /\ flush.did
    /\ Len(flush.handed) = 2
    /\ flush.handed[1] # flush.handed[2]

\* C5: a flush that changes the message list overwrites a message that was
\* streaming (isStreaming = true) just before.
C5_FlushWritesPlaceholder ==
    (flush.did /\ flush.changed) => flush.overwrote = "true"

\* C6: no message stored in the archive has isStreaming = true.
C6_NoStreamingPersisted ==
    localStorage # <<>> =>
        \A i \in DOMAIN localStorage[1] :
            \A j \in DOMAIN localStorage[1][i].messages :
                LET m == localStorage[1][i].messages[j]
                IN  "isStreaming" \in DOMAIN m => m.isStreaming # "true"

\* C7: right after a flush into the list of an active conversation, the
\* archive entry of that conversation holds the finalized assistant message.
C7_FlushPersisted ==
    (flush.did /\ flush.changed /\ currentConversationId # Null) =>
        /\ localStorage # <<>>
        /\ \E i \in DOMAIN localStorage[1] :
              /\ localStorage[1][i].id = currentConversationId
              /\ \E j \in DOMAIN localStorage[1][i].messages :
                    localStorage[1][i].messages[j] = StringifyMessage(Last(messages))

\* C8: loading an id makes the active list the messages persisted for every
\* conversation of the history that has this id.
C8_RoundTrip ==
    [][\A id \in LoadIds :
          handleLoadConversation(id) =>
             \A i \in DOMAIN history :
                history[i].id = id => messages' = history[i].messages]_vars

\* C9: a stream_end or an idle-timer expiry that finds the buffer empty makes
\* no flush and leaves the message list as it was.
C9_EmptyFlushNoop ==
    (flush.by \in {"stream_end", "idle_timer"} /\ flush.empty) =>
        (~flush.did /\ ~flush.changed /\ flush.overwrote = "none")

\* the idle timer armed by an empty fragment expires and finds the buffer empty
C9_Witness ==
    /\ flush.by = "idle_timer"
    /\ flush.empty
    /\ lastChunkTimeRef # Null
    /\ flush.quiet >= IdleThreshold

\* C10: once the cleanup has run, the current transport is closing or closed,
\* no idle timer and no reconnection timer is pending, and no flush is made.
C10_NothingAfterTeardown ==
    tornDown =>
        /\ sockets[wsRef].readyState \in {"CLOSING", "CLOSED"}
        /\ idleTimers = {}
        /\ reconnectTimers = <<>>
        /\ ~flush.did

\* C11: handling a frame whose data cannot be parsed leaves the buffer, the
\* date-query hint, the last-chunk time, the idle timer and the message list
\* as they were, and the transport that delivered it stays open.
C11_UnparseableDiscarded ==
    [][call'.op = "unparseable" =>
          /\ UNCHANGED <<accumulatedResponse, isDateQuery, lastChunkTimeRef,
                         timeoutRef, idleTimers, messages>>
          /\ \E i \in DOMAIN sockets :
                sockets[i].readyState = "OPEN" /\ sockets'[i].readyState = "OPEN"]_vars

\* an unparseable frame was handled while text was buffered and the idle
\* timer was pending, and the transport is still open
C11_Witness ==
    /\ call.op = "unparseable"
    /\ accumulatedResponse # <<>>
    /\ \E t \in idleTimers : t.id = timeoutRef
    /\ sockets[wsRef].readyState = "OPEN"

\* C12: handling an envelope of type error, warning or status appends exactly
\* one assistant message to the message list and leaves the transports, the
\* buffer, the date-query hint, the last-chunk time and the idle timer as they
\* were.
C12_EnvelopesSurfaced ==
    [][call'.op \in {"error", "warning", "status"} =>
          /\ Len(messages') = Len(messages) + 1
          /\ Front(messages') = messages
          /\ Last(messages').role = "assistant"
          /\ UNCHANGED <<sockets, accumulatedResponse, isDateQuery,
                         lastChunkTimeRef, timeoutRef, idleTimers>>]_vars

\* C13: no user operation (send, load, new conversation) throws, whatever the
\* readyState of the transport it hands its envelope to.
C13_SendNeverThrows ==
    call.op \in {"send", "load", "new"} => ~call.threw

\* C14: every open event leaves the buffer empty, the date-query hint false
\* and the last-chunk time unset; so the buffer always holds exactly the
\* fragments delivered since the last open or flush, the hint is set only by
\* one of them, and every flush (also one by an idle timer armed before the
\* open) hands over those fragments only.
C14_OpenResetsAccumulation ==
    /\ [](/\ accumulatedResponse = received
          /\ isDateQuery => HintsDate(received)
          /\ flush.did => flush.handed = flush.expected)
    /\ [][(\E i \in DOMAIN sockets :
              sockets[i].readyState = "CONNECTING" /\ sockets'[i].readyState = "OPEN")
          => (/\ accumulatedResponse' = <<>>
              /\ isDateQuery' = FALSE
              /\ lastChunkTimeRef' = Null)]_vars

\* an idle timer armed on the first connection expires after the second
\* transport opened: it finds the last-chunk time unset and flushes nothing
C14_Witness ==
    /\ flush.by = "idle_timer"
    /\ ~flush.did
    /\ lastChunkTimeRef = Null
    /\ flush.quiet >= IdleThreshold
    /\ Len(sockets) = 2
    /\ sockets[2].readyState = "OPEN"
    /\ sockets[1].opened

\* C15: handleNewConversation makes the active list exactly one greeting
\* message and the active pointer none, and leaves the history in memory and
\* the stored archive as they were.
C15_StartNewFrame ==
    [][call'.op = "new" =>
          /\ Len(messages') = 1
          /\ messages'[1].role = "assistant"
          /\ messages'[1].content = GreetingText
          /\ currentConversationId' = Null
          /\ UNCHANGED <<history, localStorage>>]_vars

\* a new conversation was started while a conversation of a non-empty archive
\* was active
C15_Witness ==
    /\ call.op = "new"
    /\ messages = <<Greeting>>
    /\ currentConversationId = Null
    /\ Len(history) = 1
    /\ localStorage = Persisted(history)
    /\ Len(history[1].messages) = 3

\* C16: a send of non-empty input with an active pointer replaces the messages
\* of exactly one conversation, the active one, and leaves the number, order
\* and content of the others as they were; with no active pointer it appends
\* exactly one conversation and makes it active; in both cases the stored
\* archive is the whole updated history right after the send.
C16_SendUpdatesArchive ==
    [][(call'.op = "send" /\ call'.sent # <<>>) =>
          /\ IF currentConversationId # Null
             THEN /\ currentConversationId' = currentConversationId
                  /\ Len(history') = Len(history)
                  /\ \E k \in DOMAIN history :
                        /\ history[k].id = currentConversationId
                        /\ history'[k] = [history[k] EXCEPT !.messages = messages']
                        /\ \A j \in DOMAIN history : j # k => history'[j] = history[j]
             ELSE /\ Len(history') = Len(history) + 1
                  /\ Front(history') = history
                  /\ Last(history').messages = messages'
                  /\ currentConversationId' = Last(history').id
          /\ localStorage' = <<JSONstringify(history')>>]_vars

\* C17: loading an id no conversation of the history has leaves the active
\* list, the active pointer, the history and the stored archive as they were
\* and hands no envelope to the transport; loading an id of the history makes
\* the active list the messages of a conversation with that id and the
\* pointer that id.
C17_LoadMissingNoChange ==
    [][\A id \in LoadIds :
          handleLoadConversation(id) =>
             IF \A i \in DOMAIN history : history[i].id # id
             THEN /\ UNCHANGED <<messages, currentConversationId, history, localStorage>>
                  /\ call'.sent = <<>>
                  /\ ~call'.threw
             ELSE /\ \E i \in DOMAIN history :
                        history[i].id = id /\ messages' = history[i].messages
                  /\ currentConversationId' = id
                  /\ UNCHANGED <<history, localStorage>>]_vars

\* an id that is not in a non-empty history was loaded while a conversation
\* was active
C17_Witness ==
    /\ call.op = "load"
    /\ call.sent = <<>>
    /\ history # <<>>
    /\ currentConversationId # Null
    /\ messages # <<Greeting>>

\* C18: every load_chat envelope handed to the transport has a history field
\* that is the non-empty list of the role and content of the loaded messages,
\* in order.
C18_LoadChatCarriesHistory ==
    \A k \in DOMAIN call.sent :
        call.sent[k].type = "load_chat" =>
            /\ "history" \in DOMAIN call.sent[k]
            /\ call.sent[k].history # <<>>
            /\ call.sent[k].history =
                  [j \in DOMAIN messages |->
                      [role |-> messages[j].role, content |-> messages[j].content]]

\* C19: no two conversations of the history have the same id.
C19_UniqueIds ==
    \A i, j \in DOMAIN history : i # j => history[i].id # history[j].id

\* C20: at most one idle timer is pending in every reachable state, and it is
\* the one timeoutRef refers to; so each ai_chunk cancels the timer pending
\* before it, whichever connection armed it.
C20_OneIdleTimer ==
    /\ Cardinality(idleTimers) <= 1
    /\ \A t \in idleTimers : t.id = timeoutRef

\* the second transport has opened and received nothing yet, and the one idle
\* timer pending is the (overdue) timer a fragment of the first connection
\* armed, still referred to by the shared timeoutRef
C20_Witness ==
    /\ Len(sockets) = 2
    /\ sockets[1].opened
    /\ sockets[2].readyState = "OPEN"
    /\ lastChunkTimeRef = Null
    /\ Cardinality(idleTimers) = 1
    /\ \E t \in idleTimers : t.id = timeoutRef

\* the transports that are connecting or open
Active == {i \in DOMAIN sockets : sockets[i].readyState \in {"CONNECTING", "OPEN"}}

\* C21: in every reachable state at most one transport is connecting or open,
\* at most one reconnection timer is pending, and none is pending while a
\* transport is connecting or open.
C21_SingleConnection ==
    /\ Cardinality(Active) <= 1
    /\ Len(reconnectTimers) <= 1
    /\ reconnectTimers # <<>> => Active = {}

\* the third transport of the session is open after two reconnections, the
\* second of them after an opened connection dropped
C21_Witness ==
    /\ Len(sockets) = 3
    /\ sockets[2].opened
    /\ Active = {3}
    /\ sockets[3].readyState = "OPEN"
    /\ reconnectTimers = <<>>
    /\ ~tornDown

\* C22: the content a flush writes depends on the concatenated text only: it
\* is what the same text delivered as one fragment yields, namely
\* formatResponse of the text with the date-query hint the whole text sets;
\* so two fragment sequences with the same concatenation yield the same
\* content.
C22_SplitIndependent ==
    (flush.did /\ ~tornDown) =>
        Last(messages).content = formatResponse(flush.handed, HintsDate(flush.handed))

\* C23: handling an envelope of type tool_status, tool_result, status,
\* warning, error, model_connected or of an unknown type leaves the buffer,
\* the date-query hint, the last-chunk time and the idle timer as they were,
\* and changes the readyState of no transport.
C23_OnlyChunksAccumulate ==
    [][call'.op \in {"tool_status", "tool_result", "status", "warning", "error",
                     "model_connected", "unknown"} =>
          UNCHANGED <<accumulatedResponse, isDateQuery, lastChunkTimeRef,
                      timeoutRef, idleTimers, sockets>>]_vars

\* a tool_result envelope was handled between a fragment and its flush: the
\* text is still buffered and its idle timer still pending
C23_Witness ==
    /\ call.op = "tool_result"
    /\ accumulatedResponse = <<"x">>
    /\ lastChunkTimeRef # Null
    /\ \E t \in idleTimers : t.id = timeoutRef
    /\ sockets[wsRef].readyState = "OPEN"

\* C25: a flush does not change the list of a conversation that was started
\* after the last send: while the active list is the single greeting of a new
\* conversation (no active pointer, a non-empty history), every flush leaves
\* it as it is.
C25_SwitchIsolatesFlush ==
    [][(/\ currentConversationId = Null
        /\ messages = <<Greeting>>
        /\ history # <<>>
        /\ flush'.did)
       => messages' = messages]_vars

\* C26: right after a stream_end envelope has been handled, no message of the
\* active list is streaming (isStreaming = true).
C26_StreamEndFreezes ==
    flush.by = "stream_end" =>
        \A j \in DOMAIN messages : messages[j].isStreaming # "true"

\* C27: a step that handles an ai_chunk and raises an error leaves the buffer,
\* the date-query hint, the last-chunk time and the idle timer as they were;
\* and in every state of a live session a non-empty buffer has its idle timer
\* pending.
C27_ChunkAllOrNothing ==
    /\ [][(call'.op = "ai_chunk" /\ call'.threw) =>
             UNCHANGED <<accumulatedResponse, isDateQuery, lastChunkTimeRef,
                         timeoutRef, idleTimers>>]_vars
    /\ []((accumulatedResponse # <<>> /\ ~tornDown) =>
             \E t \in idleTimers : t.id = timeoutRef)

\* ------------------------------------------- formatResponse on its own
\* A response is a sequence of segments: prose, a fenced block (an opening
\* fence with its tag, a newline, the code, a newline, the closing fence) or,
\* as the last segment only, a fence that is never closed. Segments are
\* separated by a newline.
MaxSegments == 3

\* the language tags: none, a tag of word characters, a tag with others
Tags == {<<>>, <<"py">>, <<"c++">>}
Codes == {<<"x">>, <<"**", "x">>}
Proses == {<<"x">>, <<"**">>}

Prose(text) == [kind |-> "prose", tag |-> <<>>, body |-> text]
Block(tag, code) == [kind |-> "block", tag |-> tag, body |-> code]
Unclosed(tag, code) == [kind |-> "unclosed", tag |-> tag, body |-> code]

Segments ==
    {Prose(t) : t \in Proses} \cup {Block(g, c) : g \in Tags, c \in Codes}
        \cup {Unclosed(g, c) : g \in Tags, c \in Codes}

SegmentSeqs == UNION {[1..n -> Segments] : n \in 1..MaxSegments}

Responses ==
    {d \in SegmentSeqs :
        /\ \A i \in 1..(Len(d) - 1) : d[i].kind # "unclosed"
        /\ \A i \in 1..(Len(d) - 1) : ~(d[i].kind = "prose" /\ d[i + 1].kind = "prose")}

\* the text of one segment
RenderSegment(s) ==
    IF s.kind = "prose" THEN s.body
    ELSE IF s.kind = "block"
         THEN <<"fence">> \o s.tag \o <<"\n">> \o s.body \o <<"\n", "fence">>
         ELSE <<"fence">> \o s.tag \o <<"\n">> \o s.body

\* the text of the segments from..to of a response, a newline between two
RECURSIVE Render(_, _, _)
Render(d, from, to) ==
    IF from > to THEN <<>>
    ELSE IF from = to THEN RenderSegment(d[from])
    ELSE RenderSegment(d[from]) \o <<"\n">> \o Render(d, from + 1, to)

\* the page as mounted, with a response to format
InitFormat ==
    /\ Mounted
    /\ response \in Responses
    /\ result = <<>>

\* formatResponse(text) applied to the text of the response, isDateQuery false
Format ==
    /\ result = <<>>
    /\ result' = <<formatResponse(Render(response, 1, Len(response)), FALSE)>>
    /\ UNCHANGED <<messages, uiVars, connVars, accVars, timerVars, tornDown,
                   flush, obsVars, call, response>>

NextFormat == Format

SpecFormat == InitFormat /\ [][NextFormat]_vars

\* the result without the line breaks formatResponse puts between its parts
StripBreaks(html) == SelectSeq(html, LAMBDA c : c # "<br><br>")

\* a structured code block: its label, the Copy and Edit actions, the code
StructuredBlock(tag, code) ==
    <<"<div class=code-block>">> \o (IF tag = <<>> THEN <<"text">> ELSE tag)
        \o <<"Copy", "Edit", "<code>">> \o code \o <<"</code></div>">>

\* a well-formed fenced block: closed, its tag empty or of word characters;
\* a block with another tag is counted with the malformed ones, as prose
WellFormed(s) == s.kind = "block" /\ \A j \in DOMAIN s.tag : IsWord(s.tag[j])

\* the cleaned prose of the segments from..to, none a well-formed block
CleanedProse(d, from, to) == trimText(cleanResponse(Render(d, from, to)))

\* what a response is to be transformed to: a structured block for every
\* well-formed fenced block, and the cleaned prose between the blocks, in
\* source order; a fence that is never closed counts as prose
RECURSIVE Expected(_, _, _)
Expected(d, i, runStart) ==
    IF i > Len(d) THEN CleanedProse(d, runStart, Len(d))
    ELSE IF WellFormed(d[i])
         THEN CleanedProse(d, runStart, i - 1) \o StructuredBlock(d[i].tag, d[i].body)
                  \o Expected(d, i + 1, i + 1)
         ELSE Expected(d, i + 1, runStart)

\* the response has a fence after a closed block whose tag has other
\* characters than word characters
MispairedFences(d) ==
    \E i, k \in DOMAIN d :
        i < k /\ d[i].kind = "block" /\ ~WellFormed(d[i]) /\ d[k].kind # "prose"

\* C24: a response without date hint that contains k well-formed fenced
\* blocks is transformed to exactly k structured blocks in source order, each
\* labelled with its tag, or text for an empty tag, and carrying Copy and
\* Edit, with the non-empty cleaned prose between them in order; a fence
\* that is never closed yields no structured block
C24_FencedBlocksStructured ==
    result # <<>> => StripBreaks(result[1]) = Expected(response, 1, 1)

\* the same for the responses without a fence after such a closed block
FencedBlocksStructuredUnlessMispaired ==
    (result # <<>> /\ ~MispairedFences(response)) =>
        StripBreaks(result[1]) = Expected(response, 1, 1)

====
